---- MODULE Spec2Model ----
(***************************************************************************)
(* Text extraction of src/src/pdf_parser.rs: the ToUnicode CMap decoder    *)
(* (parse_cmap), the per-page font cache (Cache), the text decoder         *)
(* (add_primitive) and the page/operator loop of read_pdf.                 *)
(*                                                                         *)
(* Strings of Unicode text are sequences of scalar values, byte strings    *)
(* are sequences of 0..255, a HashMap is a function on its key set, an     *)
(* Option is the empty sequence (None) or a one-element sequence (Some).   *)
(***************************************************************************)
EXTENDS Integers, Sequences, FiniteSets, TLC

VARIABLES
    overflow_checks,  \* build profile: TRUE when `+=` on u8 panics on overflow
    pc,               \* read_pdf: "page" | "ops" | "ok" | "err" | "panic"
    page_no,          \* pages of file.pages() already taken
    resources,        \* page.resources of the page being interpreted
    cache,            \* Cache.fonts of the page being interpreted
    current_font,     \* Option<&FontInfo>
    out,              \* the String being built
    nops,             \* operations interpreted so far in the document
    last,             \* history: the operation interpreted last, out and current_font before it
    sel,              \* history: the latest Tf / font-carrying gs of the page and the name it looked up
    dark,             \* history: a Tf missed the cache and no Tf/gs has resolved a font since
    texts,            \* history: for each finished page, the text of its operations run on their own
    solo,             \* history: the text of the current page's operations run on their own
    prev,             \* history: the name that selected the font current when the previous page ended
    result,           \* the value read_pdf has returned: None while running and after a panic
    fault,            \* history: what ended the run with an error or a panic, "" if nothing
    cm,               \* parse_cmap: lexer/loop state while a CMap stream is parsed
    app               \* App: the notes, the reader tasks, the reads and the messages not yet handled

vars == <<overflow_checks, pc, page_no, resources, cache, current_font, out,
          nops, last, sel, dark, texts, solo, prev, result, fault, cm, app>>

-----------------------------------------------------------------------------
(* Bounds of the model *)

MaxOps == 4       \* operations interpreted per document
MaxPages == 2     \* pages per document
MaxTokens == 10   \* tokens of a CMap stream read by parse_cmap
MaxRange == 3     \* codes of one bfrange range
MaxLiveTokens == 7    \* tokens of a CMap stream whose reading is followed to its end
MaxUploads == 3   \* files chosen in the two file inputs

-----------------------------------------------------------------------------
(* Primitives (pdf::primitive::Primitive) and lexer tokens *)

Str(b)  == [t |-> "str",  v |-> b]
Arr(a)  == [t |-> "arr",  v |-> a]
Name(n) == [t |-> "name", v |-> n]
Num(n)  == [t |-> "num",  v |-> n]
Kw(k)   == [t |-> "kw",   v |-> k]
TokEOF  == [t |-> "eof",  v |-> <<>>]

None == <<>>
Some(x) == <<x>>

NL == 10

EmptyMap == [c \in {} |-> <<>>]

\* an insert that keeps the value of a key that is already present
Insert_keeps_first(map, k, v) ==
    [c \in (DOMAIN map) \cup {k} |-> IF c \in DOMAIN map THEN map[c] ELSE v]

\* HashMap::insert: the value under k is replaced
Insert(map, k, v) == [c \in (DOMAIN map) \cup {k} |-> IF c = k THEN v ELSE map[c]]

-----------------------------------------------------------------------------
(* utf16be_to_string *)

Utf16Units(data) ==
    [i \in 1..(Len(data) \div 2) |-> data[2 * i - 1] * 256 + data[2 * i]]

IsHigh(u) == u >= 55296 /\ u <= 56319     \* D800..DBFF
IsLow(u)  == u >= 56320 /\ u <= 57343     \* DC00..DFFF

RECURSIVE Utf16WellFormed(_)
Utf16WellFormed(u) ==
    IF u = <<>> THEN TRUE
    ELSE IF IsHigh(u[1])
         THEN Len(u) >= 2 /\ IsLow(u[2]) /\ Utf16WellFormed(SubSeq(u, 3, Len(u)))
         ELSE ~IsLow(u[1]) /\ Utf16WellFormed(Tail(u))

RECURSIVE Utf16Chars(_)
Utf16Chars(u) ==
    IF u = <<>> THEN <<>>
    ELSE IF IsHigh(u[1]) /\ Len(u) >= 2
         THEN <<65536 + (u[1] - 55296) * 1024 + (u[2] - 56320)>>
                  \o Utf16Chars(SubSeq(u, 3, Len(u)))
         ELSE <<u[1]>> \o Utf16Chars(Tail(u))

\* c.unwrap() panics on an ill-formed unit sequence
utf16be_ok(data) == Utf16WellFormed(Utf16Units(data))

utf16be_to_string(data) == Utf16Chars(Utf16Units(data))

-----------------------------------------------------------------------------
(* parse_cmap *)

\* u16::from_be_bytes(bytes.try_into().unwrap()): the unwrap needs 2 bytes
CidOk(b) == Len(b) = 2
\* the code read with u16::from_le_bytes
U16BE_little_endian(b) == b[2] * 256 + b[1]
U16BE(b) == b[1] * 256 + b[2]

\* parse_with_lexer: what the match arms see of the primitive read
IsString(tok) == tok.t = "str"
IsArray(tok)  == tok.t = "arr"

Panicked(st) == [st EXCEPT !.panic = TRUE, !.mode = "done"]

\* `*unicode_data.last_mut().unwrap() += 1`
RECURSIVE RangeString(_, _, _, _, _)
RangeString(st, cid, cid_end, data, oc) ==
    IF cid > cid_end THEN st
    ELSE IF ~utf16be_ok(data) THEN Panicked(st)
    ELSE LET ins == [st EXCEPT !.map = Insert(st.map, cid, utf16be_to_string(data))]
             n   == Len(data)
         IN  IF n = 0 THEN Panicked(ins)
             ELSE IF data[n] = 255
                  THEN IF oc THEN Panicked(ins)
                       ELSE RangeString(ins, cid + 1, cid_end, [data EXCEPT ![n] = 0], oc)
                  ELSE RangeString(ins, cid + 1, cid_end, [data EXCEPT ![n] = data[n] + 1], oc)

\* the array loop decoding the first entry for every code of the range
RangeArray_reuses_first(st, cid, cid_end, arr) ==
    IF cid > cid_end \/ arr = <<>> THEN st
    ELSE LET hi == IF cid + Len(arr) - 1 < cid_end THEN cid + Len(arr) - 1 ELSE cid_end
         IN  [st EXCEPT !.map = [c \in (DOMAIN st.map) \cup (cid..hi) |->
                                    IF c \in cid..hi THEN utf16be_to_string(arr[1].v)
                                    ELSE st.map[c]]]

\* the array loop going on to the end of the range with the last entry when the
\* array is shorter than the range
RangeArray_pads_with_last(st, cid, cid_end, arr) ==
    IF cid > cid_end \/ arr = <<>> THEN st
    ELSE IF \E i \in 1..Len(arr) : ~IsString(arr[i]) \/ ~utf16be_ok(arr[i].v)
    THEN Panicked(st)
    ELSE [st EXCEPT !.map = [c \in (DOMAIN st.map) \cup (cid..cid_end) |->
                                IF c \in cid..cid_end
                                THEN utf16be_to_string(
                                         arr[IF c - cid + 1 < Len(arr) THEN c - cid + 1
                                             ELSE Len(arr)].v)
                                ELSE st.map[c]]]

\* `for (cid, unicode_data) in (cid_start..=cid_end).zip(unicode_data_arr)`
RECURSIVE RangeArray(_, _, _, _)
RangeArray(st, cid, cid_end, arr) ==
    IF cid > cid_end \/ arr = <<>> THEN st
    ELSE LET e == Head(arr)
         IN  IF ~IsString(e) THEN Panicked(st)
             ELSE IF ~utf16be_ok(e.v) THEN Panicked(st)
             ELSE RangeArray([st EXCEPT !.map = Insert(st.map, cid, utf16be_to_string(e.v))],
                             cid + 1, cid_end, Tail(arr))

\* one turn of `while let Ok(substr) = lexer.next()` outside a block
OuterStep(st, a) ==
    IF a.t = "eof" THEN [st EXCEPT !.mode = "done"]
    ELSE IF a = Kw("beginbfchar") THEN [st EXCEPT !.mode = "bfchar"]
    ELSE IF a = Kw("beginbfrange") THEN [st EXCEPT !.mode = "bfrange"]
    ELSE IF a = Kw("endcmap") THEN [st EXCEPT !.mode = "done"]
    ELSE st

\* a bfchar loop that skips a pair of the wrong shape and reads on
BfcharStep_skips_bad_pair(st, a, b) ==
    IF IsString(a) /\ IsString(b)
    THEN IF ~CidOk(a.v) THEN Panicked(st)
         ELSE IF ~utf16be_ok(b.v) THEN Panicked(st)
         ELSE [st EXCEPT !.map = Insert(st.map, U16BE(a.v), utf16be_to_string(b.v))]
    ELSE st

\* one turn of the beginbfchar loop
BfcharStep(st, a, b) ==
    IF IsString(a) /\ IsString(b)
    THEN IF ~CidOk(a.v) THEN Panicked(st)
         ELSE IF ~utf16be_ok(b.v) THEN Panicked(st)
         ELSE [st EXCEPT !.map = Insert(st.map, U16BE(a.v), utf16be_to_string(b.v))]
    ELSE [st EXCEPT !.mode = "outer"]

\* one turn of the beginbfrange loop
BfrangeStep(st, a, b, c, oc) ==
    IF IsString(a) /\ IsString(b) /\ IsString(c)
    THEN IF ~CidOk(a.v) \/ ~CidOk(b.v) THEN Panicked(st)
         ELSE RangeString(st, U16BE(a.v), U16BE(b.v), c.v, oc)
    ELSE IF IsString(a) /\ IsString(b) /\ IsArray(c)
    THEN IF ~CidOk(a.v) \/ ~CidOk(b.v) THEN Panicked(st)
         ELSE RangeArray(st, U16BE(a.v), U16BE(b.v), c.v)
    ELSE [st EXCEPT !.mode = "outer"]

TokAt(toks, i) == IF i <= Len(toks) THEN toks[i] ELSE TokEOF
Drop(toks, n) == SubSeq(toks, n + 1, Len(toks))

ParserStart == [mode |-> "outer", map |-> EmptyMap, panic |-> FALSE]

RECURSIVE ParseFrom(_, _, _)
ParseFrom(toks, st, oc) ==
    IF st.mode = "done" THEN st
    ELSE IF st.mode = "outer"
         THEN ParseFrom(Drop(toks, 1), OuterStep(st, TokAt(toks, 1)), oc)
    ELSE IF st.mode = "bfchar"
         THEN ParseFrom(Drop(toks, 2), BfcharStep(st, TokAt(toks, 1), TokAt(toks, 2)), oc)
    ELSE ParseFrom(Drop(toks, 3),
                   BfrangeStep(st, TokAt(toks, 1), TokAt(toks, 2), TokAt(toks, 3), oc), oc)

parse_cmap(data, oc) == ParseFrom(data, ParserStart, oc)

-----------------------------------------------------------------------------
(* The document: font objects of the file, pages and their resources *)

\* ToUnicode streams of the fonts below, as the tokens the lexer yields
CMapA == <<Num(3), Kw("beginbfchar"),
           Str(<<0, 65>>), Str(<<0, 65>>),      \* <0041> <0041>
           Str(<<65, 0>>), Str(<<0, 88>>),      \* <4100> <0058>
           Str(<<0, 66>>), Str(<<0, 66>>),      \* <0042> <0042>
           Kw("endbfchar"), Kw("endcmap")>>
CMapB == <<Num(1), Kw("beginbfrange"),
           Str(<<0, 65>>), Str(<<0, 65>>), Str(<<0, 97>>),   \* <0041> <0041> <0061>
           Kw("endbfrange"), Kw("endcmap")>>
CMapZ == <<Num(1), Kw("beginbfchar"),
           Str(<<0, 65>>), Str(<<0, 90>>),      \* <0041> <005A>
           Kw("endbfchar"), Kw("endcmap")>>

\* file.get(font): the font objects; a reference outside the domain does not resolve
FontObjs ==
    [r \in 1..6 |->
        CASE r = 1 -> [name |-> "Fa", to_unicode |-> Some(CMapA), encoding |-> Some("IdentityH")]
          [] r = 2 -> [name |-> "F2", to_unicode |-> Some(CMapB), encoding |-> Some("WinAnsi")]
          [] r = 3 -> [name |-> "Fc", to_unicode |-> None,        encoding |-> Some("WinAnsi")]
          [] r = 4 -> [name |-> "Fd", to_unicode |-> Some(CMapZ), encoding |-> None]
          [] r = 5 -> [name |-> "F1", to_unicode |-> Some(CMapZ), encoding |-> Some("WinAnsi")]
          [] r = 6 -> [name |-> "F1", to_unicode |-> Some(CMapB), encoding |-> Some("WinAnsi")]]

Dangling == 0

FileGetOk(ref) == ref \in DOMAIN FontObjs

Res(fonts, gs) == [fonts |-> fonts, graphics_states |-> gs]

NoFonts == [n \in {} |-> 0]

\* page.resources of the pages a document is drawn from
PageResources ==
    { Res([n \in {"F1", "F2"} |-> IF n = "F1" THEN 1 ELSE 2], [g \in {"G1"} |-> None]),
      Res([n \in {"F1", "F2"} |-> IF n = "F1" THEN 3 ELSE 1], [g \in {"G1"} |-> Some(2)]),
      Res([n \in {"F1"} |-> 3], [g \in {"G1", "G2"} |-> IF g = "G1" THEN Some(5) ELSE Some(6)]),
      Res([n \in {"F1"} |-> 4], [g \in {"G1"} |-> Some(3)]),
      Res([n \in {"F1"} |-> 1], [g \in {"G1"} |-> Some(Dangling)]),
      Res([n \in {"F1"} |-> Dangling], [g \in {} |-> None]) }

\* a page of file.pages(): Err, or a Page with optional resources and contents
Pages ==
    { [ok |-> FALSE, resources |-> None, has_contents |-> FALSE],
      [ok |-> TRUE,  resources |-> None, has_contents |-> TRUE] }
    \cup { [ok |-> TRUE, resources |-> Some(r), has_contents |-> TRUE] : r \in PageResources }
    \cup { [ok |-> TRUE, resources |-> Some(r), has_contents |-> FALSE] :
              r \in { Res(NoFonts, [g \in {} |-> None]) } }

NoResources == Res(NoFonts, [g \in {} |-> None])

-----------------------------------------------------------------------------
(* Cache *)

CacheNew == [n \in {} |-> None]

\* add_font without the `if let Some(to_unicode)` guard: a font without a ToUnicode
\* stream is cached with an empty CMap
add_font_unguarded(c, name, ref, oc) ==
    LET font == FontObjs[ref]
        r    == IF font.to_unicode = None THEN ParserStart
                ELSE parse_cmap(font.to_unicode[1], oc)
    IN  IF r.panic THEN [cache |-> c, status |-> "panic"]
        ELSE [cache  |-> Insert(c, name, [font |-> ref, cmap |-> r.map]),
              status |-> "ok"]

\* Cache::add_font; [cache, status]
add_font(c, name, ref, oc) ==
    LET font == FontObjs[ref]
    IN  IF font.to_unicode = None THEN [cache |-> c, status |-> "ok"]
        ELSE LET r == parse_cmap(font.to_unicode[1], oc)
             IN  IF r.panic THEN [cache |-> c, status |-> "panic"]
                 ELSE [cache  |-> Insert(c, name, [font |-> ref, cmap |-> r.map]),
                       status |-> "ok"]

\* get_font falling back to the font that is current when the name is unknown
get_font_keeps_current(c, name) == IF name \in DOMAIN c THEN Some(c[name]) ELSE current_font

\* Cache::get_font
get_font(c, name) == IF name \in DOMAIN c THEN Some(c[name]) ELSE None

\* `for (name, &font) in &resources.fonts { cache.add_font(name, file.get(font)?) }`
RECURSIVE AddResourceFonts(_, _, _, _)
AddResourceFonts(st, names, fonts, oc) ==
    IF names = <<>> \/ st.status # "ok" THEN st
    ELSE LET name == Head(names)
         IN  IF ~FileGetOk(fonts[name]) THEN [st EXCEPT !.status = "err"]
             ELSE AddResourceFonts(add_font(st.cache, name, fonts[name], oc),
                                   Tail(names), fonts, oc)

\* `for gs in resources.graphics_states.values() { if let Some((font, _)) = gs.font {..} }`
RECURSIVE AddGsFonts(_, _, _, _)
AddGsFonts(st, names, gss, oc) ==
    IF names = <<>> \/ st.status # "ok" THEN st
    ELSE LET gs == gss[Head(names)]
         IN  IF gs = None THEN AddGsFonts(st, Tail(names), gss, oc)
             ELSE IF ~FileGetOk(gs[1]) THEN [st EXCEPT !.status = "err"]
             ELSE AddGsFonts(add_font(st.cache, FontObjs[gs[1]].name, gs[1], oc),
                             Tail(names), gss, oc)

\* the iteration orders a HashMap with key set S can produce
Orders(S) ==
    { s \in [1..Cardinality(S) -> S] : \A i, j \in 1..Cardinality(S) : s[i] = s[j] => i = j }

\* the bindings of the page loop's body declared before the loop instead: the cache
\* and the current font of a page are those the page before left
PageScope_shared == [cache |-> cache, current_font |-> current_font]

\* `let mut cache = Cache::new()` and `let mut current_font = None`: the bindings of
\* one turn of the page loop, made when the turn starts and dropped when it ends
PageScope == [cache |-> CacheNew, current_font |-> None]

\* the two population loops in the other order: graphics-state fonts first
Populate_gs_first(res, forder, gorder, oc) ==
    AddResourceFonts(AddGsFonts([cache |-> PageScope.cache, status |-> "ok"],
                                gorder, res.graphics_states, oc),
                     forder, res.fonts, oc)

\* read_pdf, lines 22-33: the cache of a page, resource fonts first
Populate(res, forder, gorder, oc) ==
    AddGsFonts(AddResourceFonts([cache |-> PageScope.cache, status |-> "ok"],
                                forder, res.fonts, oc),
               gorder, res.graphics_states, oc)

-----------------------------------------------------------------------------
(* add_primitive *)

Encoding(info) == FontObjs[info.font].encoding

\* `for w in data.as_bytes().windows(2)`
RECURSIVE DecodeWindows(_, _, _)
DecodeWindows(data, i, cmap) ==
    IF i + 1 > Len(data) THEN <<>>
    ELSE LET cp == U16BE(<<data[i], data[i + 1]>>)
         IN  (IF cp \in DOMAIN cmap THEN cmap[cp] ELSE <<>>)
                 \o DecodeWindows(data, i + 1, cmap)

\* the byte loop without the `else { out.push(b as char) }` arm
RECURSIVE DecodeBytes_no_fallback(_, _, _)
DecodeBytes_no_fallback(data, i, cmap) ==
    IF i > Len(data) THEN <<>>
    ELSE (IF data[i] \in DOMAIN cmap THEN cmap[data[i]] ELSE <<>>)
             \o DecodeBytes_no_fallback(data, i + 1, cmap)

\* `for &b in data.as_bytes()`
RECURSIVE DecodeBytes(_, _, _)
DecodeBytes(data, i, cmap) ==
    IF i > Len(data) THEN <<>>
    ELSE (IF data[i] \in DOMAIN cmap THEN cmap[data[i]] ELSE <<data[i]>>)
             \o DecodeBytes(data, i + 1, cmap)

\* add_string pushing the newline only after a non-empty Identity-H string
add_string_newline_if_nonempty(data, o, info) ==
    IF Encoding(info) = None THEN o
    ELSE IF Encoding(info) = Some("IdentityH")
         THEN (o \o DecodeWindows(data, 1, info.cmap)) \o (IF data = <<>> THEN <<>> ELSE <<NL>>)
         ELSE o \o DecodeBytes(data, 1, info.cmap)

\* add_string decoding byte by byte when the font has no encoding, instead of dropping
add_string_bytes_without_encoding(data, o, info) ==
    IF Encoding(info) = Some("IdentityH")
    THEN (o \o DecodeWindows(data, 1, info.cmap)) \o <<NL>>
    ELSE o \o DecodeBytes(data, 1, info.cmap)

\* the String arm of add_primitive
add_string(data, o, info) ==
    IF Encoding(info) = None THEN o
    ELSE IF Encoding(info) = Some("IdentityH")
         THEN (o \o DecodeWindows(data, 1, info.cmap)) \o <<NL>>
         ELSE o \o DecodeBytes(data, 1, info.cmap)

RECURSIVE add_primitive(_, _, _)
RECURSIVE add_primitives(_, _, _)
add_primitive(p, o, info) ==
    IF p.t = "str" THEN add_string(p.v, o, info)
    ELSE IF p.t = "arr" THEN add_primitives(p.v, o, info)
    ELSE o

\* the elements visited from the last to the first
RECURSIVE add_primitives_reversed(_, _, _)
add_primitives_reversed(ps, o, info) ==
    IF ps = <<>> THEN o
    ELSE add_primitive(Head(ps), add_primitives_reversed(Tail(ps), o, info), info)

\* `for p in a.iter() { add_primitive(p, out, info) }` and operands.iter().for_each(..)
add_primitives(ps, o, info) ==
    IF ps = <<>> THEN o
    ELSE add_primitives(Tail(ps), add_primitive(Head(ps), o, info), info)

-----------------------------------------------------------------------------
(* read_pdf: the operands the operations of a content stream are drawn from *)

TfOperands ==
    { <<Name("F1"), Num(12)>>, <<Name("F2"), Num(12)>>, <<Name("F9"), Num(12)>>,
      <<Num(12)>>, <<>> }

GsOperands == { <<Name("G1")>>, <<Name("G9")>>, <<>> }

ShowOperands ==
    { <<>>,
      <<Str(<<0, 65>>)>>,
      <<Str(<<0, 65, 0, 66>>)>>,
      <<Str(<<66, 65>>)>>,
      <<Str(<<>>)>>,
      <<Arr(<<Str(<<0, 65>>), Num(-120), Arr(<<Str(<<66>>)>>)>>)>> }

ShowOps == {"Tj", "TJ", "BT"}
NewlineOps == {"Td", "TD", "T*"}
OtherOps == {"ET", "'"}
OtherOperands == { <<>>, <<Str(<<0, 65>>)>> }

NoLast == [op |-> "", operands |-> <<>>, out0 |-> <<>>, font0 |-> None]

\* Result<String, PdfError>
Ok(text) == Some([ok |-> TRUE, text |-> text])
Err == Some([ok |-> FALSE, text |-> <<>>])

\* what one turn of the operation loop leaves behind
Effect(op, operands, npc, nfont, nout, nsel, ndark, nsolo) ==
    /\ pc' = npc
    /\ current_font' = nfont
    /\ out' = nout
    /\ sel' = nsel
    /\ dark' = ndark
    /\ solo' = nsolo
    /\ result' = IF npc = "err" THEN Err ELSE result
    /\ last' = [op |-> op, operands |-> operands, out0 |-> out, font0 |-> current_font]
    /\ nops' = nops + 1
    /\ fault' = IF npc \in {"err", "panic"} THEN "operation" ELSE fault
    /\ UNCHANGED <<overflow_checks, page_no, resources, cache, texts, prev, cm, app>>

Abort(op, operands, how) == Effect(op, operands, how, current_font, out, sel, dark, solo)

\* `let file = PdfFile::from_data(data).unwrap()` on bytes that are no PDF
LoadFails ==
    /\ pc = "page" /\ page_no = 0
    /\ pc' = "panic"
    /\ fault' = "load"
    /\ UNCHANGED <<overflow_checks, page_no, resources, cache, current_font, out,
                   nops, last, sel, dark, texts, solo, prev, result, cm, app>>

\* the head of the page loop skipping a page that cannot be read, instead of `page?`
StartPage_skips_unreadable_page ==
    /\ pc = "page" /\ page_no < MaxPages
    /\ \E pg \in Pages :
         /\ page_no' = page_no + 1
         /\ last' = NoLast
         /\ UNCHANGED <<overflow_checks, out, nops, texts, solo, prev, cm, app>>
         /\ IF ~pg.ok
            THEN /\ pc' = "page" /\ fault' = "page"
                 /\ UNCHANGED <<resources, cache, current_font, sel, dark>>
            ELSE IF pg.resources = None
            THEN /\ pc' = "panic" /\ fault' = "resources"
                 /\ UNCHANGED <<resources, cache, current_font, sel, dark>>
            ELSE \E forder \in Orders(DOMAIN pg.resources[1].fonts),
                    gorder \in Orders(DOMAIN pg.resources[1].graphics_states) :
                   LET r == Populate(pg.resources[1], forder, gorder, overflow_checks)
                   IN  /\ resources' = pg.resources[1]
                       /\ cache' = r.cache
                       /\ current_font' = PageScope.current_font
                       /\ sel' = None
                       /\ dark' = FALSE
                       /\ pc' = IF r.status # "ok" THEN r.status
                                ELSE IF ~pg.has_contents THEN "panic"
                                ELSE "ops"
                       /\ fault' = IF r.status = "err" THEN "font"
                                   ELSE IF r.status = "panic" THEN "cmap"
                                   ELSE IF ~pg.has_contents THEN "contents"
                                   ELSE fault
         /\ result' = IF pc' = "err" THEN Err ELSE result

\* the head of the page loop, up to the first operation
StartPage ==
    /\ pc = "page" /\ page_no < MaxPages
    /\ \E pg \in Pages :
         /\ page_no' = page_no + 1
         /\ last' = NoLast
         /\ UNCHANGED <<overflow_checks, out, nops, texts, solo, prev, cm, app>>
         /\ IF ~pg.ok
            THEN /\ pc' = "err" /\ fault' = "page"
                 /\ UNCHANGED <<resources, cache, current_font, sel, dark>>
            ELSE IF pg.resources = None
            THEN /\ pc' = "panic" /\ fault' = "resources"
                 /\ UNCHANGED <<resources, cache, current_font, sel, dark>>
            ELSE \E forder \in Orders(DOMAIN pg.resources[1].fonts),
                    gorder \in Orders(DOMAIN pg.resources[1].graphics_states) :
                   LET r == Populate(pg.resources[1], forder, gorder, overflow_checks)
                   IN  /\ resources' = pg.resources[1]
                       /\ cache' = r.cache
                       /\ current_font' = PageScope.current_font
                       /\ sel' = None
                       /\ dark' = FALSE
                       /\ pc' = IF r.status # "ok" THEN r.status
                                ELSE IF ~pg.has_contents THEN "panic"
                                ELSE "ops"
                       /\ fault' = IF r.status = "err" THEN "font"
                                   ELSE IF r.status = "panic" THEN "cmap"
                                   ELSE IF ~pg.has_contents THEN "contents"
                                   ELSE fault
         /\ result' = IF pc' = "err" THEN Err ELSE result

\* "gs" taking a name that is not in the graphics-state table as a graphics state
\* without a font, instead of unwrapping the lookup
OpGs_unknown_name_ignored ==
    /\ pc = "ops" /\ nops < MaxOps
    /\ \E operands \in GsOperands :
         IF operands = <<>> THEN Abort("gs", operands, "panic")
         ELSE IF operands[1].t # "name" THEN Abort("gs", operands, "panic")
         ELSE IF operands[1].v \notin DOMAIN resources.graphics_states
              THEN Effect("gs", operands, "ops", current_font, out, sel, dark, solo)
         ELSE LET gs == resources.graphics_states[operands[1].v]
              IN  IF gs = None
                  THEN Effect("gs", operands, "ops", current_font, out, sel, dark, solo)
                  ELSE IF ~FileGetOk(gs[1]) THEN Abort("gs", operands, "err")
                  ELSE LET f == get_font(cache, FontObjs[gs[1]].name)
                       IN  Effect("gs", operands, "ops", f, out,
                                  Some([by |-> "gs", name |-> FontObjs[gs[1]].name]),
                                  IF f = None THEN dark ELSE FALSE, solo)

\* "gs"
OpGs ==
    /\ pc = "ops" /\ nops < MaxOps
    /\ \E operands \in GsOperands :
         IF operands = <<>> THEN Abort("gs", operands, "panic")
         ELSE IF operands[1].t # "name" THEN Abort("gs", operands, "panic")
         ELSE IF operands[1].v \notin DOMAIN resources.graphics_states
              THEN Abort("gs", operands, "panic")
         ELSE LET gs == resources.graphics_states[operands[1].v]
              IN  IF gs = None
                  THEN Effect("gs", operands, "ops", current_font, out, sel, dark, solo)
                  ELSE IF ~FileGetOk(gs[1]) THEN Abort("gs", operands, "err")
                  ELSE LET f == get_font(cache, FontObjs[gs[1]].name)
                       IN  Effect("gs", operands, "ops", f, out,
                                  Some([by |-> "gs", name |-> FontObjs[gs[1]].name]),
                                  IF f = None THEN dark ELSE FALSE, solo)

\* "Tf" that selects a font only while none is current
OpTf_only_when_unset ==
    /\ pc = "ops" /\ nops < MaxOps
    /\ \E operands \in TfOperands :
         IF operands = <<>> THEN Abort("Tf", operands, "panic")
         ELSE IF operands[1].t # "name" THEN Abort("Tf", operands, "panic")
         ELSE LET f == IF current_font = None THEN get_font(cache, operands[1].v)
                       ELSE current_font
              IN  Effect("Tf", operands, "ops", f, out,
                         Some([by |-> "Tf", name |-> operands[1].v]), f = None, solo)

\* "Tf"
OpTf ==
    /\ pc = "ops" /\ nops < MaxOps
    /\ \E operands \in TfOperands :
         IF operands = <<>> THEN Abort("Tf", operands, "panic")
         ELSE IF operands[1].t # "name" THEN Abort("Tf", operands, "panic")
         ELSE LET f == get_font(cache, operands[1].v)
              IN  Effect("Tf", operands, "ops", f, out,
                         Some([by |-> "Tf", name |-> operands[1].v]), f = None, solo)

\* "Tj" | "TJ" | "BT" without the `if let Some(font) = current_font` guard: with no
\* current font the operands are decoded as under a font with an empty CMap
OpShow_unguarded ==
    /\ pc = "ops" /\ nops < MaxOps
    /\ \E op \in ShowOps, operands \in ShowOperands :
         Effect(op, operands, "ops", current_font,
                add_primitives(operands, out,
                               IF current_font # None THEN current_font[1]
                               ELSE [font |-> 3, cmap |-> EmptyMap]),
                sel, dark,
                IF current_font # None THEN add_primitives(operands, solo, current_font[1])
                ELSE solo)

\* "Tj" | "TJ" | "BT" decoding into a fresh String that replaces the buffer
OpShow_fresh_buffer ==
    /\ pc = "ops" /\ nops < MaxOps
    /\ \E op \in ShowOps, operands \in ShowOperands :
         IF current_font # None
         THEN Effect(op, operands, "ops", current_font,
                     add_primitives(operands, <<>>, current_font[1]), sel, dark,
                     add_primitives(operands, solo, current_font[1]))
         ELSE Effect(op, operands, "ops", current_font, out, sel, dark, solo)

\* "Tj" | "TJ" | "BT"
OpShow ==
    /\ pc = "ops" /\ nops < MaxOps
    /\ \E op \in ShowOps, operands \in ShowOperands :
         IF current_font # None
         THEN Effect(op, operands, "ops", current_font,
                     add_primitives(operands, out, current_font[1]), sel, dark,
                     add_primitives(operands, solo, current_font[1]))
         ELSE Effect(op, operands, "ops", current_font, out, sel, dark, solo)

\* "Td" | "TD" | "T*" pushing the newline only while a font is current
OpNewline_needs_font ==
    /\ pc = "ops" /\ nops < MaxOps
    /\ \E op \in NewlineOps, operands \in {<<>>, <<Num(0), Num(-12)>>} :
         IF current_font # None
         THEN Effect(op, operands, "ops", current_font, Append(out, NL), sel, dark,
                     Append(solo, NL))
         ELSE Effect(op, operands, "ops", current_font, out, sel, dark, solo)

\* "Td" | "TD" | "T*" starting the new line without a current font
OpNewline_resets_font ==
    /\ pc = "ops" /\ nops < MaxOps
    /\ \E op \in NewlineOps, operands \in {<<>>, <<Num(0), Num(-12)>>} :
         Effect(op, operands, "ops", None, Append(out, NL), sel, dark, Append(solo, NL))

\* "Td" | "TD" | "T*"
OpNewline ==
    /\ pc = "ops" /\ nops < MaxOps
    /\ \E op \in NewlineOps, operands \in {<<>>, <<Num(0), Num(-12)>>} :
         Effect(op, operands, "ops", current_font, Append(out, NL), sel, dark,
                Append(solo, NL))

\* `_ => {}`
OpOther ==
    /\ pc = "ops" /\ nops < MaxOps
    /\ \E op \in OtherOps, operands \in OtherOperands :
         Effect(op, operands, "ops", current_font, out, sel, dark, solo)

\* the end of a page pushing a newline to separate it from the next page
EndPage_pushes_separator ==
    /\ pc = "ops"
    /\ pc' = "page"
    /\ resources' = NoResources
    /\ cache' = PageScope.cache
    /\ current_font' = PageScope.current_font
    /\ sel' = None
    /\ dark' = FALSE
    /\ last' = NoLast
    /\ texts' = Append(texts, solo)
    /\ solo' = <<>>
    /\ prev' = IF current_font = None THEN None ELSE Some(sel[1].name)
    /\ out' = Append(out, NL)
    /\ UNCHANGED <<overflow_checks, page_no, nops, result, fault, cm, app>>

\* contents.operations is exhausted: the page's cache and current_font go out of
\* scope, on to the next page
EndPage ==
    /\ pc = "ops"
    /\ pc' = "page"
    /\ resources' = NoResources
    /\ cache' = PageScope.cache
    /\ current_font' = PageScope.current_font
    /\ sel' = None
    /\ dark' = FALSE
    /\ last' = NoLast
    /\ texts' = Append(texts, solo)
    /\ solo' = <<>>
    /\ prev' = IF current_font = None THEN None ELSE Some(sel[1].name)
    /\ UNCHANGED <<overflow_checks, page_no, out, nops, result, fault, cm, app>>

\* file.pages() is exhausted: Ok(out)
Finish ==
    /\ pc = "page"
    /\ pc' = "ok"
    /\ result' = Ok(out)
    /\ UNCHANGED <<overflow_checks, page_no, resources, cache, current_font, out,
                   nops, last, sel, dark, texts, solo, prev, fault, cm, app>>

NoStep == [kind |-> "none", toks |-> <<>>, before |-> EmptyMap, ender |-> TokEOF, lost |-> {}]
NoBlock == [start |-> EmptyMap, pairs |-> <<>>]

\* parse_cmap not running
CmIdle == [mode |-> "idle", map |-> EmptyMap, panic |-> FALSE, ntok |-> 0, eof |-> FALSE,
           step |-> NoStep, block |-> NoBlock]

-----------------------------------------------------------------------------
(* App: the brokers, the notes, the files and the messages *)

\* App::create: the two BrokerInformation records; Rc<BrokerInformation> is compared
\* by the derived PartialEq, field by field
degiro_broker == [name |-> "Degiro", country_code |-> "NL"]
ib_broker == [name |-> "Interactive Brokers", country_code |-> "IE"]

Note(broker, n) == [broker |-> broker, id |-> n]

\* the notes a parser returns for a statement: notes of the broker it was given
ParsedNotes(broker) ==
    { [account |-> <<Note(broker, 1), Note(broker, 2)>>, balance |-> <<Note(broker, 1)>>],
      [account |-> <<Note(broker, 3)>>, balance |-> <<>>] }

\* a chosen file, by what reading and parsing it gives: read is the outcome of
\* read_pdf / read_zip_str ("ok", "err", or "panic" for the unwrap of read_pdf),
\* parser that of IBParser::new, account and balance the parsed notes or None
FileOf(read, parser, account, balance) ==
    [read |-> read, parser |-> parser, account |-> account, balance |-> balance]

NoFile == FileOf("", FALSE, None, None)

\* read_pdf: Ok, Err, or a panic (from_data(..).unwrap() on bytes that are no PDF);
\* parse_pdf_content: Err or the pair (balance_notes, account_notes)
DegiroFiles ==
    { FileOf("panic", TRUE, None, None), FileOf("err", TRUE, None, None),
      FileOf("ok", TRUE, None, None) }
    \cup { FileOf("ok", TRUE, Some(p.account), Some(p.balance)) : p \in ParsedNotes(degiro_broker) }

\* read_zip_str: Ok or Err; IBParser::new: Ok or Err; parse_account_notes and
\* parse_balance_notes: each Ok or Err
IBFiles ==
    { FileOf("err", FALSE, None, None), FileOf("ok", FALSE, None, None),
      FileOf("ok", TRUE, Some(<<Note(ib_broker, 1)>>), None) }
    \cup { FileOf("ok", TRUE, Some(p.account), Some(p.balance)) : p \in ParsedNotes(ib_broker) }

Msg(type, file, task) == [type |-> type, file |-> file, task |-> task]

NoMsg == [type |-> "", file |-> NoFile, account0 |-> <<>>, balance0 |-> <<>>, queue0 |-> <<>>]

\* App::create
AppNew ==
    [account_notes |-> <<>>, balance_notes |-> <<>>, tasks |-> <<>>,
     readers |-> <<>>, queue |-> <<>>, crashed |-> FALSE, nfiles |-> 0, last |-> NoMsg]

Init ==
    /\ overflow_checks \in BOOLEAN
    /\ pc = "page"
    /\ page_no = 0
    /\ resources = NoResources
    /\ cache = CacheNew
    /\ current_font = None
    /\ out = <<>>
    /\ nops = 0
    /\ last = NoLast
    /\ sel = None
    /\ dark = FALSE
    /\ texts = <<>>
    /\ solo = <<>>
    /\ prev = None
    /\ result = None
    /\ fault = ""
    /\ cm = CmIdle
    /\ app = AppNew

Next ==
    \/ LoadFails
    \/ StartPage
    \/ OpGs
    \/ OpTf
    \/ OpShow
    \/ OpNewline
    \/ OpOther
    \/ EndPage
    \/ Finish

Spec == Init /\ [][Next]_vars

-----------------------------------------------------------------------------
(* parse_cmap run by itself on a token stream that is read as the lexer goes:     *)
(* cm.ntok tokens are consumed, cm.eof says the lexer has hit the end of the    *)
(* data; cm.step (the tokens of the last turn and the map before it) and         *)
(* cm.block (the map at beginbfchar and the pairs inserted since) are history.  *)

\* <0041>, <0043>, <004100FE>, <004100FF>
HexStrings == { <<0, 65>>, <<0, 67>>, <<0, 65, 0, 254>>, <<0, 65, 0, 255>> }

Tokens ==
    { Str(b) : b \in HexStrings }
    \cup { Arr(<<Str(<<0, 66>>)>>),
           Arr(<<Str(<<0, 65>>), Str(<<0, 66>>), Str(<<0, 67>>)>>),
           Arr(<<Str(<<0, 65, 0, 253>>), Str(<<0, 65, 0, 254>>), Str(<<0, 65, 0, 255>>)>>),
           Arr(<<Str(<<216, 61, 222, 0>>), Num(1)>>) }
    \cup { Kw("beginbfchar"), Kw("beginbfrange"), Kw("endbfchar"), Kw("endbfrange"),
           Kw("endcmap"), Num(1) }

\* the tokens of the streams whose reading to the end is followed: a code, the last
\* code 0xFFFF, an array, the keywords of the outer loop
LiveTokens ==
    { Str(<<0, 65>>), Str(<<0, 67>>), Str(<<255, 255>>), Arr(<<Str(<<0, 66>>)>>),
      Kw("beginbfchar"), Kw("beginbfrange"), Kw("endbfchar"), Kw("endcmap"), Num(1) }

\* what the lexer can yield for the n-th token read in a turn, the stream being at
\* most max tokens drawn from T
Avail(T, max, n) ==
    IF cm.eof \/ cm.ntok + n > max THEN {TokEOF} ELSE T \cup {TokEOF}

AfterTok(T, max, a, n) == IF a.t = "eof" THEN {TokEOF} ELSE Avail(T, max, n)

Consumed(toks) == Cardinality({i \in 1..Len(toks) : toks[i].t # "eof"})

\* the keywords the outer loop of parse_cmap acts on
OuterKeywords == {Kw("beginbfchar"), Kw("beginbfrange"), Kw("endcmap")}

\* the lexer position and the history after a turn that read toks; of a turn that
\* leaves a block, ender: the keyword it read first (TokEOF if it read none first),
\* lost: the keywords of the outer loop it read after its first token
Turn(st, kind, toks, blk) ==
    [st EXCEPT !.ntok = cm.ntok + Consumed(toks),
               !.eof = \E i \in 1..Len(toks) : toks[i].t = "eof",
               !.step = [kind |-> kind,
                         toks |-> IF kind = "break" THEN <<>> ELSE toks,
                         before |-> cm.map,
                         ender |-> IF kind = "break" /\ toks[1].t = "kw" THEN toks[1]
                                   ELSE TokEOF,
                         lost |-> IF kind = "break"
                                  THEN {toks[i] : i \in 2..Len(toks)} \cap OuterKeywords
                                  ELSE {}],
               !.block = blk]

CMapVarsOnly ==
    UNCHANGED <<overflow_checks, pc, page_no, resources, cache, current_font, out,
                nops, last, sel, dark, texts, solo, prev, result, fault, app>>

\* `while let Ok(substr) = lexer.next() { match substr.as_slice() {..} }`
Outer(T, max) ==
    /\ cm.mode = "outer"
    /\ \E a \in Avail(T, max, 1) :
         cm' = Turn(OuterStep(cm, a), "outer", <<a>>,
                    IF a = Kw("beginbfchar") THEN [start |-> cm.map, pairs |-> <<>>]
                    ELSE NoBlock)
    /\ CMapVarsOnly

\* one (code, unicode) pair of a beginbfchar block
Bfchar(T, max) ==
    /\ cm.mode = "bfchar"
    /\ \E a \in Avail(T, max, 1) : \E b \in AfterTok(T, max, a, 2) :
         LET st == BfcharStep(cm, a, b)
         IN  cm' = IF IsString(a) /\ IsString(b)
                   THEN Turn(st, "bfchar", <<a, b>>,
                             IF st.panic THEN cm.block
                             ELSE [cm.block EXCEPT !.pairs = Append(@, <<a.v, b.v>>)])
                   ELSE Turn(st, "break", <<a, b>>, NoBlock)
    /\ CMapVarsOnly

\* the ranges read hold at most MaxRange codes
RangeWithinBound(a, b, c) ==
    (IsString(a) /\ IsString(b) /\ (IsString(c) \/ IsArray(c)) /\ CidOk(a.v) /\ CidOk(b.v)) =>
        U16BE(b.v) - U16BE(a.v) < MaxRange

\* one (start, end, target) triple of a beginbfrange block
Bfrange(T, max) ==
    /\ cm.mode = "bfrange"
    /\ \E a \in Avail(T, max, 1) : \E b \in AfterTok(T, max, a, 2) :
       \E c \in AfterTok(T, max, b, 3) :
         LET st == BfrangeStep(cm, a, b, c, overflow_checks)
         IN  /\ RangeWithinBound(a, b, c)
             /\ cm' = IF IsString(a) /\ IsString(b) /\ IsString(c)
                   THEN Turn(st, "bfrange_str", <<a, b, c>>, NoBlock)
                   ELSE IF IsString(a) /\ IsString(b) /\ IsArray(c)
                   THEN Turn(st, "bfrange_arr", <<a, b, c>>, NoBlock)
                   ELSE Turn(st, "break", <<a, b, c>>, NoBlock)
    /\ CMapVarsOnly

InitCMap ==
    /\ overflow_checks \in BOOLEAN
    /\ pc = "page"
    /\ page_no = 0
    /\ resources = NoResources
    /\ cache = CacheNew
    /\ current_font = None
    /\ out = <<>>
    /\ nops = 0
    /\ last = NoLast
    /\ sel = None
    /\ dark = FALSE
    /\ texts = <<>>
    /\ solo = <<>>
    /\ prev = None
    /\ result = None
    /\ fault = ""
    /\ cm = [CmIdle EXCEPT !.mode = "outer"]
    /\ app = AppNew

LexOuter == Outer(Tokens, MaxTokens)
ReadBfchar == Bfchar(Tokens, MaxTokens)
ReadBfrange == Bfrange(Tokens, MaxTokens)

NextCMap ==
    \/ LexOuter
    \/ ReadBfchar
    \/ ReadBfrange

SpecCMap == InitCMap /\ [][NextCMap]_vars

LiveOuter == Outer(LiveTokens, MaxLiveTokens)
LiveBfchar == Bfchar(LiveTokens, MaxLiveTokens)
LiveBfrange == Bfrange(LiveTokens, MaxLiveTokens)

NextCMapLive ==
    \/ LiveOuter
    \/ LiveBfchar
    \/ LiveBfrange

\* parse_cmap is sequential code run to its return: a turn that can be taken is taken
SpecCMapLive == InitCMap /\ [][NextCMapLive]_vars /\ WF_vars(NextCMapLive)

-----------------------------------------------------------------------------
(* App::update: one action for each message handled, and the events that send one *)

AppVarsOnly ==
    UNCHANGED <<overflow_checks, pc, page_no, resources, cache, current_font, out,
                nops, last, sel, dark, texts, solo, prev, result, fault, cm>>

\* a retain that removes nothing
Retain_keeps_all(notes, broker) == notes

\* Vec::retain(|note| note.broker != broker)
Retain(notes, broker) == SelectSeq(notes, LAMBDA note : note.broker # broker)

\* the four retain / append calls of an Uploaded handler
Load(a, broker, account, balance) ==
    [a EXCEPT !.account_notes = Retain(a.account_notes, broker) \o account,
              !.balance_notes = Retain(a.balance_notes, broker) \o balance]

\* self.tasks.clear(): every ReaderTask of the list is dropped, and dropping a task
\* whose read is still in progress aborts the read
Clear(a) ==
    [a EXCEPT !.tasks = <<>>,
              !.readers = [t \in DOMAIN a.readers |->
                              IF a.readers[t].state = "loading"
                                  /\ \E i \in 1..Len(a.tasks) : a.tasks[i] = t
                              THEN [a.readers[t] EXCEPT !.state = "aborted"]
                              ELSE a.readers[t]]]

\* self.link.send_message(..)
Send(a, type) == [a EXCEPT !.queue = Append(a.queue, Msg(type, NoFile, 0))]

\* the last four lines of both Uploaded handlers
ClearAndGenerate(a) == Send(Send(Clear(a), "GenerateD6"), "GenerateAeat720")

\* the message update is called with, and the App with it taken off the queue
Handling(type) ==
    /\ ~app.crashed
    /\ app.queue # <<>>
    /\ Head(app.queue).type = type

Taken ==
    [app EXCEPT !.queue = Tail(app.queue),
                !.last = [type |-> Head(app.queue).type, file |-> Head(app.queue).file,
                          account0 |-> app.account_notes, balance0 |-> app.balance_notes,
                          queue0 |-> Tail(app.queue)]]

Event(type) == [NoMsg EXCEPT !.type = type]

\* an event of the browser is dispatched when no message is being handled: update
\* runs to its end, and the messages it sent are handled, before the next event
Idle == ~app.crashed /\ app.queue = <<>>

\* onchange of the Degiro file input: ChangeData::Files with a file, or other data
ChooseDegiroFile ==
    /\ Idle /\ app.nfiles < MaxUploads
    /\ \E m \in {Msg("UploadDegiroFile", file, 0) : file \in DegiroFiles}
                 \cup {Msg("ErrorUploadPdf", NoFile, 0)} :
         app' = [app EXCEPT !.queue = Append(app.queue, m),
                            !.nfiles = app.nfiles + 1,
                            !.last = Event("onchange")]
    /\ AppVarsOnly

\* onchange of the Interactive Brokers file input
ChooseIBFile ==
    /\ Idle /\ app.nfiles < MaxUploads
    /\ \E m \in {Msg("UploadIBFile", file, 0) : file \in IBFiles}
                 \cup {Msg("ErrorUploadZip", NoFile, 0)} :
         app' = [app EXCEPT !.queue = Append(app.queue, m),
                            !.nfiles = app.nfiles + 1,
                            !.last = Event("onchange")]
    /\ AppVarsOnly

\* ReaderService::read_file(file, callback) and the push of its task
StartRead(a, file, kind) ==
    [a EXCEPT !.readers = Append(a.readers, [kind |-> kind, file |-> file, state |-> "loading"]),
              !.tasks = Append(a.tasks, Len(a.readers) + 1)]

\* Msg::UploadDegiroFile
UploadDegiroFile ==
    /\ Handling("UploadDegiroFile")
    /\ app' = StartRead(Taken, Head(app.queue).file, "UploadedDegiroFile")
    /\ AppVarsOnly

\* Msg::UploadIBFile
UploadIBFile ==
    /\ Handling("UploadIBFile")
    /\ app' = StartRead(Taken, Head(app.queue).file, "UploadedIBFile")
    /\ AppVarsOnly

\* a read in progress ends and its callback sends the Uploaded message
LoadEnd ==
    /\ Idle
    /\ \E t \in DOMAIN app.readers :
         /\ app.readers[t].state = "loading"
         /\ app' = [app EXCEPT !.readers[t].state = "done",
                               !.queue = Append(app.queue,
                                                Msg(app.readers[t].kind, app.readers[t].file, t)),
                               !.last = Event("loadend")]
    /\ AppVarsOnly

\* Msg::UploadedDegiroFile
UploadedDegiroFile ==
    /\ Handling("UploadedDegiroFile")
    /\ LET file == Head(app.queue).file
       IN  app' = IF file.read = "panic" THEN [Taken EXCEPT !.crashed = TRUE]
                  ELSE IF file.read = "ok" /\ file.account # None /\ file.balance # None
                  THEN ClearAndGenerate(Load(Taken, degiro_broker,
                                             file.account[1], file.balance[1]))
                  ELSE ClearAndGenerate(Taken)
    /\ AppVarsOnly

\* Msg::UploadedIBFile
UploadedIBFile ==
    /\ Handling("UploadedIBFile")
    /\ LET file == Head(app.queue).file
       IN  app' = IF file.read = "ok" /\ file.parser
                      /\ file.account # None /\ file.balance # None
                  THEN ClearAndGenerate(Load(Taken, ib_broker,
                                             file.account[1], file.balance[1]))
                  ELSE ClearAndGenerate(Taken)
    /\ AppVarsOnly

\* Msg::GenerateD6: the form is built from the balance notes, which it leaves alone
GenerateD6 ==
    /\ Handling("GenerateD6")
    /\ app' = Taken
    /\ AppVarsOnly

\* Msg::GenerateAeat720
GenerateAeat720 ==
    /\ Handling("GenerateAeat720")
    /\ app' = Taken
    /\ AppVarsOnly

\* Msg::ErrorUploadPdf: logged
ErrorUploadPdf ==
    /\ Handling("ErrorUploadPdf")
    /\ app' = Taken
    /\ AppVarsOnly

\* Msg::ErrorUploadZip: logged
ErrorUploadZip ==
    /\ Handling("ErrorUploadZip")
    /\ app' = Taken
    /\ AppVarsOnly

NextApp ==
    \/ ChooseDegiroFile
    \/ ChooseIBFile
    \/ UploadDegiroFile
    \/ UploadIBFile
    \/ LoadEnd
    \/ UploadedDegiroFile
    \/ UploadedIBFile
    \/ GenerateD6
    \/ GenerateAeat720
    \/ ErrorUploadPdf
    \/ ErrorUploadZip

SpecApp == Init /\ [][NextApp]_vars

-----------------------------------------------------------------------------
(* Reference definitions used by the properties below *)

ShowedText == SubSeq(out, Len(last.out0) + 1, Len(out))

IsPrefix(a, b) == Len(a) <= Len(b) /\ SubSeq(b, 1, Len(a)) = a

\* the string operands of an operand list, arrays opened, in order
RECURSIVE Flatten(_)
Flatten(ps) ==
    IF ps = <<>> THEN <<>>
    ELSE LET p == Head(ps)
         IN  (IF p.t = "str" THEN <<p.v>>
              ELSE IF p.t = "arr" THEN Flatten(p.v)
              ELSE <<>>) \o Flatten(Tail(ps))

RECURSIVE Cat(_)
Cat(ss) == IF ss = <<>> THEN <<>> ELSE Head(ss) \o Cat(Tail(ss))

Count(x, s) == Cardinality({i \in 1..Len(s) : s[i] = x})

LookUp(cmap, code) == IF code \in DOMAIN cmap THEN cmap[code] ELSE <<>>

\* the codes of non-overlapping 2-byte windows: (b[2i], b[2i+1]), i = 0 .. len/2 - 1
ChunkCodes(b) == [i \in 1..(Len(b) \div 2) |-> b[2 * i - 1] * 256 + b[2 * i]]

ChunkText(b, cmap) == Cat([i \in 1..(Len(b) \div 2) |-> LookUp(cmap, ChunkCodes(b)[i])])

\* byte by byte: the mapped string, or the byte as a scalar
ByteText(b, cmap) ==
    Cat([i \in 1..Len(b) |-> IF b[i] \in DOMAIN cmap THEN cmap[b[i]] ELSE <<b[i]>>])

RawText(b) == [i \in 1..Len(b) |-> b[i]]

ShownUnder(enc) ==
    /\ last.op \in ShowOps
    /\ last.font0 # None
    /\ Encoding(last.font0[1]) = Some(enc)

SelectedByTf == sel # None /\ sel[1].by = "Tf"

\* the name the latest Tf looked up is a resource font that has no ToUnicode stream
TfNamesFontWithoutToUnicode ==
    /\ SelectedByTf
    /\ sel[1].name \in DOMAIN resources.fonts
    /\ FileGetOk(resources.fonts[sel[1].name])
    /\ FontObjs[resources.fonts[sel[1].name]].to_unicode = None

\* no graphics state of the page brings a font with a ToUnicode stream and own name n
NoGsFontNamed(n) ==
    \A g \in DOMAIN resources.graphics_states :
        LET gs == resources.graphics_states[g]
        IN  gs = None \/ ~FileGetOk(gs[1]) \/ FontObjs[gs[1]].name # n
                \/ FontObjs[gs[1]].to_unicode = None

-----------------------------------------------------------------------------
(* Properties of the operation loop *)

\* C1: each Tj/TJ is decoded with the cache entry (CMap and encoding) of the font
\* named by the most recent Tf or font-carrying gs of the page, never another one;
\* when that lookup found nothing, nothing is decoded.
C1_FontSwitchOrdering ==
    (last.op \in {"Tj", "TJ"} /\ pc = "ops") =>
        IF sel = None \/ sel[1].name \notin DOMAIN cache
        THEN out = last.out0
        ELSE out = add_primitives(last.operands, last.out0, cache[sel[1].name])

\* Tf F1, Tj 0041, Tf F2, Tj 4241: "A\n" under F1's CMap, then "Ba" under F2's
C1_Witness ==
    /\ pc = "ops" /\ nops = 4 /\ page_no = 1
    /\ last.op = "Tj" /\ last.operands = <<Str(<<66, 65>>)>>
    /\ sel = Some([by |-> "Tf", name |-> "F2"])
    /\ resources.fonts["F1"] = 1
    /\ last.out0 = <<65, NL>>
    /\ out = <<65, NL, 66, 97>>

\* C2: Tj, TJ, BT interpreted while no font is current append nothing, leave the
\* current font unset and raise no error, whatever the operands.
C2_NoCurrentFont ==
    (last.op \in ShowOps /\ last.font0 = None) =>
        (out = last.out0 /\ current_font = None /\ pc = "ops")

C2_Witness ==
    /\ last.op \in ShowOps /\ last.font0 = None /\ sel = None
    /\ Flatten(last.operands) # <<>>
    /\ DOMAIN cache # {}

\* C3: a Tf whose name is not in the cache leaves no current font (even if one was
\* current), and until a Tf/gs resolves a font the text operators append nothing;
\* none of this raises an error.
C3_TfMissClearsFont ==
    /\ (last.op = "Tf" /\ last.operands # <<>> /\ last.operands[1].t = "name") =>
          /\ pc = "ops"
          /\ last.operands[1].v \notin DOMAIN cache => current_font = None
    /\ (dark /\ last.op \in ShowOps) => (out = last.out0 /\ pc = "ops")

\* Tf F1, Tj 0041 ("A\n"), Tf F9 (absent), Tj 0041: nothing more
C3_Witness ==
    /\ dark /\ last.op = "Tj" /\ last.operands = <<Str(<<0, 65>>)>>
    /\ sel = Some([by |-> "Tf", name |-> "F9"])
    /\ nops = 4 /\ page_no = 1
    /\ out = <<65, NL>>

\* C4 as stated: text shown under a font without ToUnicode is decoded as raw bytes.
C4_RawBytesWithoutToUnicode ==
    (last.op \in {"Tj", "TJ"} /\ pc = "ops" /\ TfNamesFontWithoutToUnicode) =>
        ShowedText = Cat([i \in 1..Len(Flatten(last.operands)) |->
                             RawText(Flatten(last.operands)[i])])

\* C4 (amended): add_font never caches a font without a ToUnicode stream, and text
\* shown after a Tf naming such a font is dropped: nothing is appended, unless a
\* graphics-state font with a ToUnicode stream was cached under the same name.
C4_NoToUnicodeDropsText ==
    /\ (pc = "ops") => \A n \in DOMAIN cache : FontObjs[cache[n].font].to_unicode # None
    /\ (last.op \in {"Tj", "TJ"} /\ pc = "ops" /\ TfNamesFontWithoutToUnicode
            /\ NoGsFontNamed(sel[1].name)) =>
          (sel[1].name \notin DOMAIN cache /\ out = last.out0)

C4_Witness ==
    /\ last.op = "Tj" /\ pc = "ops" /\ TfNamesFontWithoutToUnicode
    /\ NoGsFontNamed(sel[1].name)
    /\ DOMAIN cache # {}
    /\ last.operands = <<Str(<<66, 65>>)>>

\* C5 as stated: under Identity-H the codes looked up are those of the
\* non-overlapping 2-byte windows, a trailing odd byte contributing nothing.
C5_NonOverlappingWindows ==
    (ShownUnder("IdentityH") /\ Len(last.operands) = 1 /\ last.operands[1].t = "str") =>
        ShowedText = ChunkText(last.operands[1].v, last.font0[1].cmap) \o <<NL>>

\* C6: under Identity-H every string operand, also an empty one, one with no mapped
\* code and each string element of a nested array, appends exactly one newline, after
\* its decoded codes (the mapped strings of the model's CMaps hold no newline).
C6_IdentityHNewline ==
    (ShownUnder("IdentityH")
        /\ \A c \in DOMAIN last.font0[1].cmap : Count(NL, last.font0[1].cmap[c]) = 0) =>
        /\ pc = "ops"
        /\ IsPrefix(last.out0, out)
        /\ Count(NL, ShowedText) = Len(Flatten(last.operands))
        /\ Flatten(last.operands) # <<>> => ShowedText[Len(ShowedText)] = NL
        /\ last.operands = <<Str(<<0, 65>>)>> => ShowedText = <<65, NL>>

\* [(0041) -120 [(42)]] TJ: "A\n" for the first string, "\n" for the nested one
C6_Witness ==
    /\ ShownUnder("IdentityH")
    /\ last.op = "TJ"
    /\ Len(Flatten(last.operands)) = 2
    /\ ShowedText = <<65, NL, NL>>

\* C7: under an encoding other than Identity-H a string is decoded byte by byte, a
\* byte in the CMap giving its mapped string and any other byte the character of
\* that scalar value, with no trailing newline.
C7_ByteFallback ==
    (last.op \in ShowOps /\ last.font0 # None
        /\ Encoding(last.font0[1]) \notin {None, Some("IdentityH")}) =>
        /\ pc = "ops"
        /\ IsPrefix(last.out0, out)
        /\ ShowedText = Cat([i \in 1..Len(Flatten(last.operands)) |->
                                ByteText(Flatten(last.operands)[i], last.font0[1].cmap)])

\* bytes 42 41 under F2 (CMap 0x41 -> "a"): "Ba"
C7_Witness ==
    /\ last.op = "Tj" /\ last.font0 # None
    /\ Encoding(last.font0[1]) = Some("WinAnsi")
    /\ last.operands = <<Str(<<66, 65>>)>>
    /\ ShowedText = <<66, 97>>


-----------------------------------------------------------------------------
(* Properties of parse_cmap *)

BigEndian16(b) == b[1] * 256 + b[2]

\* UTF-16BE of a byte string none of whose units is a surrogate: one scalar per unit
Utf16BE(b) == [i \in 1..(Len(b) \div 2) |-> b[2 * i - 1] * 256 + b[2 * i]]

NoSurrogate(b) ==
    \A i \in 1..(Len(b) \div 2) :
        b[2 * i - 1] * 256 + b[2 * i] < 55296 \/ b[2 * i - 1] * 256 + b[2 * i] > 57343

WithLast(b, x) == [b EXCEPT ![Len(b)] = x]

StepTok(i) == cm.step.toks[i]

SameElsewhere(codes) ==
    /\ DOMAIN cm.map = (DOMAIN cm.step.before) \cup codes
    /\ \A c \in (DOMAIN cm.step.before) \ codes : cm.map[c] = cm.step.before[c]

BlockCodes == {BigEndian16(cm.block.pairs[i][1]) : i \in 1..Len(cm.block.pairs)}

\* C8: a well-formed bfchar pair inserts exactly one mapping, from the code read as a
\* big-endian 16-bit integer to the UTF-16BE decode of the unicode string (one or
\* several scalars); n pairs with distinct codes, none mapped before the block, add
\* exactly n entries; <0041> <0041> maps 0x0041 to "A".
C8_BfcharPair ==
    (cm.step.kind = "bfchar" /\ CidOk(StepTok(1).v) /\ NoSurrogate(StepTok(2).v)) =>
        LET code == BigEndian16(StepTok(1).v)
        IN  /\ ~cm.panic /\ cm.mode = "bfchar"
            /\ SameElsewhere({code})
            /\ cm.map[code] = Utf16BE(StepTok(2).v)
            /\ (Cardinality(BlockCodes) = Len(cm.block.pairs)
                    /\ BlockCodes \cap DOMAIN cm.block.start = {}) =>
                  Cardinality(DOMAIN cm.map)
                      = Cardinality(DOMAIN cm.block.start) + Len(cm.block.pairs)
            /\ (StepTok(1).v = <<0, 65>> /\ StepTok(2).v = <<0, 65>>) => cm.map[65] = <<65>>

\* beginbfchar <0043> <004100FE> <0041> <0041>: two entries, one of two scalars
C8_Witness ==
    /\ cm.step.kind = "bfchar" /\ ~cm.panic
    /\ cm.block.pairs = << <<<<0, 67>>, <<0, 65, 0, 254>>>>, <<<<0, 65>>, <<0, 65>>>> >>
    /\ cm.block.start = EmptyMap
    /\ cm.map = (65 :> <<65>>) @@ (67 :> <<65, 254>>)

\* C9 as stated: in the single-string form every code start+k of the range maps to the
\* decode of the target with its last byte replaced by (last byte + k) mod 256, the
\* last byte wrapping past 0xFF (also at the final code) without an error.
C9_LastByteWraps ==
    (cm.step.kind = "bfrange_str" /\ CidOk(StepTok(1).v) /\ CidOk(StepTok(2).v)
        /\ StepTok(3).v # <<>> /\ NoSurrogate(StepTok(3).v)
        /\ BigEndian16(StepTok(1).v) <= BigEndian16(StepTok(2).v)) =>
        LET start == BigEndian16(StepTok(1).v)
            end   == BigEndian16(StepTok(2).v)
            t     == StepTok(3).v
        IN  /\ ~cm.panic
            /\ \A k \in 0..(end - start) :
                  /\ start + k \in DOMAIN cm.map
                  /\ cm.map[start + k] = Utf16BE(WithLast(t, (t[Len(t)] + k) % 256))

\* C10: in the array form with one entry per code, code start+k maps to the decode of
\* entry k, each entry decoded by itself; when every entry is the first one with its
\* last byte increased by k, and the single-string form increments no last byte of
\* 0xFF on that range, the single-string form (start, end, first entry) gives the
\* same mapping.
C10_BfrangeArray ==
    (cm.step.kind = "bfrange_arr" /\ CidOk(StepTok(1).v) /\ CidOk(StepTok(2).v)
        /\ Len(StepTok(3).v) = BigEndian16(StepTok(2).v) - BigEndian16(StepTok(1).v) + 1
        /\ \A i \in 1..Len(StepTok(3).v) :
              StepTok(3).v[i].t = "str" /\ NoSurrogate(StepTok(3).v[i].v)) =>
        LET start == BigEndian16(StepTok(1).v)
            end   == BigEndian16(StepTok(2).v)
            arr   == StepTok(3).v
            t0    == arr[1].v
            single == BfrangeStep([cm EXCEPT !.map = cm.step.before], StepTok(1), StepTok(2),
                                  Str(t0), overflow_checks)
        IN  /\ ~cm.panic /\ cm.mode = "bfrange"
            /\ SameElsewhere(start..end)
            /\ \A k \in 0..(end - start) : cm.map[start + k] = Utf16BE(arr[k + 1].v)
            /\ (/\ t0 # <<>>
                /\ t0[Len(t0)] + (end - start) < 255
                /\ \A k \in 0..(end - start) : arr[k + 1].v = WithLast(t0, t0[Len(t0)] + k)) =>
                  (~single.panic /\ single.map = cm.map)

\* beginbfrange <0041> <0043> [<0041> <0042> <0043>]: "A", "B", "C"
C10_Witness ==
    /\ cm.step.kind = "bfrange_arr" /\ ~cm.panic
    /\ StepTok(1).v = <<0, 65>> /\ StepTok(2).v = <<0, 67>>
    /\ StepTok(3) = Arr(<<Str(<<0, 65>>), Str(<<0, 66>>), Str(<<0, 67>>)>>)
    /\ cm.step.before = EmptyMap
    /\ cm.map = (65 :> <<65>>) @@ (66 :> <<66>>) @@ (67 :> <<67>>)

Least(a, b) == IF a <= b THEN a ELSE b

\* the definitions a well-formed turn of a block makes, code by code, in the
\* spec's terms: the pair of a bfchar turn, the codes start..end of a bfrange turn
\* with the target's last byte advanced, or with the entries of the array
StepDefs ==
    LET start == BigEndian16(StepTok(1).v)
        end   == BigEndian16(StepTok(2).v)
        t     == StepTok(3).v
    IN  IF cm.step.kind = "bfchar"
        THEN [c \in {start} |-> Utf16BE(StepTok(2).v)]
        ELSE IF cm.step.kind = "bfrange_str"
        THEN [c \in start..end |-> Utf16BE(WithLast(t, (t[Len(t)] + (c - start)) % 256))]
        ELSE [c \in start..Least(end, start + Len(t) - 1) |-> Utf16BE(t[c - start + 1].v)]

\* the turn read last defined codes from well-formed operands and did not fail
DefiningStep ==
    /\ cm.step.kind \in {"bfchar", "bfrange_str", "bfrange_arr"}
    /\ ~cm.panic
    /\ cm.step.kind = "bfchar" => NoSurrogate(StepTok(2).v)
    /\ cm.step.kind = "bfrange_str" => NoSurrogate(StepTok(3).v)
    /\ cm.step.kind = "bfrange_arr" =>
          \A i \in 1..Len(StepTok(3).v) :
              StepTok(3).v[i].t = "str" /\ NoSurrogate(StepTok(3).v[i].v)

C26_ArrayLengthMismatch ==
    LET start == BigEndian16(StepTok(1).v)
        end   == BigEndian16(StepTok(2).v)
        arr   == StepTok(3).v
        n     == IF end < start THEN 0 ELSE Least(Len(arr), end - start + 1)
    IN  (cm.step.kind = "bfrange_arr" /\ CidOk(StepTok(1).v) /\ CidOk(StepTok(2).v)
            /\ Len(arr) # end - start + 1
            /\ \A i \in 1..n : IsString(arr[i]) /\ utf16be_ok(arr[i].v)) =>
            /\ ~cm.panic /\ cm.mode = "bfrange"
            /\ DOMAIN cm.map = (DOMAIN cm.step.before) \cup (start..(start + n - 1))
            /\ \A k \in 0..(n - 1) : cm.map[start + k] = utf16be_to_string(arr[k + 1].v)
            /\ \A c \in (DOMAIN cm.step.before) \ (start..(start + n - 1)) :
                  cm.map[c] = cm.step.before[c]

\* beginbfrange <0041> <0043> [<0042>]: only 0x0041 is mapped
C26_Witness ==
    /\ cm.step.kind = "bfrange_arr" /\ ~cm.panic /\ cm.mode = "bfrange"
    /\ StepTok(1).v = <<0, 65>> /\ StepTok(2).v = <<0, 67>>
    /\ StepTok(3) = Arr(<<Str(<<0, 66>>)>>)
    /\ cm.step.before = EmptyMap
    /\ cm.map = (65 :> <<66>>)

\* C24: parse_cmap terminates on every finite token stream: whatever the tokens,
\* with or without endcmap, the outer loop, the bfchar and bfrange loops and the
\* loop over the codes of a range (also one ending at 0xFFFF or with start > end)
\* finish, by returning or by a panic.
C24_Terminates == <>(cm.mode = "done")

\* beginbfrange <FFFF> <FFFF> <0041> <0043> <0041> <0041>, then the end of the
\* stream without endcmap: 0xFFFF mapped, nothing for the range 0x0043..0x0041,
\* and the parser has returned
C24_Witness ==
    /\ cm.mode = "done" /\ ~cm.panic /\ cm.eof
    /\ cm.map = (65535 :> <<65>>)
    /\ cm.ntok = 7
    /\ cm.step.kind = "outer"

-----------------------------------------------------------------------------
(* Properties of the document walk *)

\* C11: the text of a document is the concatenation, in page order, of the texts its
\* pages produce when their operations are interpreted on their own, with nothing
\* before, between or after them; this holds of the buffer after every step and of
\* the value returned.
C11_PageConcatenation ==
    /\ out = Cat(texts) \o solo
    /\ pc = "ok" => (Len(texts) = page_no /\ result = Ok(Cat(texts)))

\* page 1 giving "A\n", page 2 giving "Ba": "A\nBa" is returned
C11_Witness ==
    /\ pc = "ok" /\ page_no = 2
    /\ texts = << <<65, NL>>, <<66, 97>> >>
    /\ result = Ok(<<65, NL, 66, 97>>)

\* C12: Td, TD and T* append exactly one newline and nothing else, with or without
\* a current font and whatever their operands; the current font is left as it was.
C12_NewlineOps ==
    (last.op \in NewlineOps) =>
        (out = last.out0 \o <<NL>> /\ current_font = last.font0 /\ pc = "ops")

\* TD with operands while no font is current, after text was emitted
C12_Witness ==
    /\ last.op = "TD" /\ last.operands = <<Num(0), Num(-12)>>
    /\ last.font0 = None
    /\ last.out0 = <<65, NL>>
    /\ out = <<65, NL, NL>>

\* the operation interpreted last is a gs with a name operand
GsNamed == last.op = "gs" /\ last.operands # <<>> /\ last.operands[1].t = "name"

GsKnown == GsNamed /\ last.operands[1].v \in DOMAIN resources.graphics_states

\* the font of the graphics state the last gs named, None when it has none
GsFont == resources.graphics_states[last.operands[1].v]

Fatal == pc \in {"err", "panic"}

\* C13 as stated: a gs whose name is not in the graphics-state table, whose font
\* cannot be fetched or whose font's own name has no entry in the cache is fatal.
C13_GsFailureFatal ==
    (GsNamed /\ (~GsKnown \/ (GsFont # None /\ (~FileGetOk(GsFont[1])
                                \/ FontObjs[GsFont[1]].name \notin DOMAIN cache)))) => Fatal

\* C13 (amended): a gs whose name is not in the graphics-state table panics, with the
\* output and the current font as they were; a graphics-state font that cannot be
\* fetched has failed the page before its first operation; a gs whose font's own name
\* has no entry in the cache is not fatal, it clears the current font and appends
\* nothing; and no step is taken after a fatal outcome.
C13_GsFatalOrCleared ==
    /\ [](/\ (GsNamed /\ ~GsKnown) =>
                (pc = "panic" /\ result = None /\ out = last.out0
                    /\ current_font = last.font0)
          /\ (pc = "ops") =>
                \A g \in DOMAIN resources.graphics_states :
                    resources.graphics_states[g] = None
                        \/ FileGetOk(resources.graphics_states[g][1])
          /\ (GsKnown /\ GsFont # None /\ FontObjs[GsFont[1]].name \notin DOMAIN cache) =>
                (pc = "ops" /\ current_font = None /\ out = last.out0))
    /\ [][~Fatal]_vars

\* Tf F1 finds a font, then gs G1 whose font has no ToUnicode stream clears it
C13_Witness ==
    /\ GsKnown /\ GsFont # None
    /\ FontObjs[GsFont[1]].name \notin DOMAIN cache
    /\ last.font0 # None
    /\ current_font = None
    /\ pc = "ops"

\* C14: a page that cannot be read or whose font object cannot be fetched ends
\* read_pdf with Err, a page without resources or without contents ends it with a
\* panic; either way no text is returned, although the text of the pages before is in
\* the buffer, Ok is returned only by a run in which nothing failed, every page taken
\* was interpreted to its end before the next one is taken, and no step follows a
\* fatal outcome (no later page is processed).
C14_AllOrNothing ==
    /\ [](/\ fault \in {"page", "font"} => (pc = "err" /\ result = Err)
          /\ fault \in {"resources", "contents"} => (pc = "panic" /\ result = None)
          /\ (result # None /\ result[1].ok) => (pc = "ok" /\ fault = "")
          /\ Fatal => (result = None \/ ~result[1].ok)
          /\ pc = "page" => Len(texts) = page_no)
    /\ [][~Fatal /\ (page_no' # page_no => fault = "")]_vars

\* page 1 gave text, page 2 cannot be read: Err, and the text of page 1 is lost
C14_Witness ==
    /\ fault = "page" /\ page_no = 2
    /\ texts = << <<65, NL>> >>
    /\ out = <<65, NL>>
    /\ result = Err

\* C16: under a current font that has no encoding, Tj/TJ (and BT) append nothing,
\* neither characters nor a newline, whatever their string operands and the font's
\* CMap, and the loop goes on without an error.
C16_NoEncodingDropsText ==
    (last.op \in ShowOps /\ last.font0 # None /\ Encoding(last.font0[1]) = None) =>
        (out = last.out0 /\ pc = "ops" /\ current_font = last.font0)

\* Tj with the bytes 42 41 under a font without encoding whose CMap maps 0x41
C16_Witness ==
    /\ last.op = "Tj" /\ last.font0 # None
    /\ Encoding(last.font0[1]) = None
    /\ 65 \in DOMAIN last.font0[1].cmap
    /\ last.operands = <<Str(<<66, 65>>)>>
    /\ last.out0 = <<NL>>

SelectOps == {"Tf", "gs"}

\* C18: only Tf and a gs whose graphics state carries a font change the current
\* font: it is as before after Td, TD, T*, Tj, TJ, BT, any other operator, and a gs
\* whose graphics state has no font; operators outside gs, Tf, Tj, TJ, BT, Td, TD, T*
\* leave the output as it was too, whatever their operands.
C18_Frame ==
    /\ last.op \notin SelectOps => current_font = last.font0
    /\ (GsKnown /\ GsFont = None) => (current_font = last.font0 /\ pc = "ops")
    /\ (last.op # "" /\ last.op \notin SelectOps \cup ShowOps \cup NewlineOps) =>
          (out = last.out0 /\ pc = "ops")

\* the operator ' with a string operand under an Identity-H font, after text
C18_Witness ==
    /\ last.op = "'" /\ last.operands = <<Str(<<0, 65>>)>>
    /\ last.font0 # None /\ Encoding(last.font0[1]) = Some("IdentityH")
    /\ current_font = last.font0
    /\ last.out0 = <<65, NL>>
    /\ out = <<65, NL>>

\* no operation of the page has been interpreted yet
FirstOperator == pc = "ops" /\ last = NoLast

\* font (a reference with a ToUnicode stream) is a font of the page's resources for
\* the cache name n: a resource font under its resource name or a graphics-state
\* font under its own name
FromResources(n, font) ==
    /\ \/ n \in DOMAIN resources.fonts /\ font = resources.fonts[n]
       \/ \E g \in DOMAIN resources.graphics_states :
             LET gs == resources.graphics_states[g]
             IN  gs # None /\ FileGetOk(gs[1]) /\ font = gs[1] /\ FontObjs[gs[1]].name = n
    /\ FileGetOk(font)
    /\ FontObjs[font].to_unicode # None

\* C19: at the first operator of every page the current font is none and every cache
\* entry is a font of that page's resources with the CMap of its own ToUnicode
\* stream, and the entries stay fonts of the page's resources during the page; so
\* text shown before any Tf/gs of the page appends nothing, whatever font the
\* previous page ended with, and a Tf whose name no font of this page's resources is
\* cached under finds nothing.
C19_PageIsolation ==
    /\ FirstOperator =>
          /\ current_font = None
          /\ \A n \in DOMAIN cache :
                cache[n].cmap = parse_cmap(FontObjs[cache[n].font].to_unicode[1],
                                           overflow_checks).map
    /\ pc = "ops" => \A n \in DOMAIN cache : FromResources(n, cache[n].font)
    /\ (last.op \in ShowOps /\ sel = None) => (out = last.out0 /\ current_font = None)
    /\ (last.op = "Tf" /\ last.operands # <<>> /\ last.operands[1].t = "name"
           /\ \A r \in DOMAIN FontObjs : ~FromResources(last.operands[1].v, r)) =>
          current_font = None

\* page 1 ended with a font current that page 2 does not define; the Tj that opens
\* page 2 appends nothing
C19_Witness ==
    /\ page_no = 2 /\ pc = "ops"
    /\ prev # None /\ prev[1] \notin DOMAIN cache
    /\ texts = << <<66, 97>> >>
    /\ last.op = "Tj" /\ last.operands = <<Str(<<66, 65>>)>>
    /\ sel = None
    /\ DOMAIN cache # {}
    /\ out = <<66, 97>>

\* C20: the buffer is append-only: over every step, of an operation, of a page
\* boundary or of the return, its content before the step is a prefix of its
\* content after it.
C20_AppendOnly == [][IsPrefix(out, out')]_vars

\* text appended on page 2 after the text of page 1
C20_Witness ==
    /\ page_no = 2 /\ pc = "ops"
    /\ texts = << <<65, NL>> >>
    /\ last.op = "Tj" /\ last.out0 = <<65, NL>>
    /\ out = <<65, NL, 66, 90>>

-----------------------------------------------------------------------------
(* Properties of parse_cmap on malformed streams *)

\* C15 as stated: whatever the tokens, parse_cmap never fails; a pair or triple
\* without the expected shapes only abandons the current block, with the mappings
\* inserted before it kept.
C15_TolerantParsing ==
    /\ ~cm.panic
    /\ cm.step.kind = "break" => (cm.mode = "outer" /\ cm.map = cm.step.before)

\* C17 as stated: the tokens read while the end of a block is detected never include
\* the begin keyword of the next block (nor endcmap), so every block before endcmap
\* is entered, and endcmap read by the outer loop stops the parsing.
C17_EveryBlockContributes ==
    /\ cm.step.ender \in {Kw("endbfchar"), Kw("endbfrange")} => cm.step.lost = {}
    /\ (cm.step.kind = "outer" /\ StepTok(1) = Kw("endcmap")) => cm.mode = "done"

-----------------------------------------------------------------------------
(* Properties of the Font Cache population *)

\* the resource names of the page's fonts that have a ToUnicode stream
ResourceKeys ==
    {n \in DOMAIN resources.fonts :
        FileGetOk(resources.fonts[n]) /\ FontObjs[resources.fonts[n]].to_unicode # None}

\* the fonts (with a ToUnicode stream) selected by the page's graphics states
GsFonts ==
    {r \in DOMAIN FontObjs :
        /\ FontObjs[r].to_unicode # None
        /\ \E g \in DOMAIN resources.graphics_states :
              resources.graphics_states[g] = Some(r)}

GsKeys == {FontObjs[r].name : r \in GsFonts}

\* the last operation is a gs naming a graphics state whose font has a ToUnicode stream
GsWithToUnicode ==
    /\ GsKnown
    /\ GsFont # None
    /\ GsFont[1] \in GsFonts

\* C21 as stated: after the population of a page the cache's keys are exactly the
\* resource names of the fonts with a ToUnicode stream and the own names of the
\* graphics-state fonts with one, a graphics-state font replacing a resource font of
\* the same key; and a gs naming a graphics state whose font has a ToUnicode stream
\* makes the entry of that very font current, found under the font's own name.
C21_CachePopulation ==
    /\ pc = "ops" =>
          /\ DOMAIN cache = ResourceKeys \cup GsKeys
          /\ \A n \in GsKeys : cache[n].font \in GsFonts /\ FontObjs[cache[n].font].name = n
    /\ (pc = "ops" /\ GsWithToUnicode) =>
          /\ sel = Some([by |-> "gs", name |-> FontObjs[GsFont[1]].name])
          /\ current_font # None
          /\ current_font[1].font = GsFont[1]

\* the graphics-state fonts (with a ToUnicode stream) whose own name is n
GsFontsNamed(n) == {r \in GsFonts : FontObjs[r].name = n}

\* n is the resource name of a font with a ToUnicode stream and the own name of a
\* different font, also with one, selected by a graphics state of the page
Collides(n) ==
    /\ n \in ResourceKeys
    /\ GsFontsNamed(n) # {}
    /\ resources.fonts[n] \notin GsFontsNamed(n)

\* C25: when the own name of a graphics-state font is the resource name of a
\* different font of the page, both with ToUnicode streams, the cache entry under
\* that name is the graphics-state font's, not the resource font's, and text shown
\* after a Tf with that name is decoded with the graphics-state font's CMap and
\* encoding.
C25_GsFontReplacesResourceFont ==
    /\ pc = "ops" =>
          \A n \in DOMAIN resources.fonts :
              Collides(n) => /\ cache[n].font \in GsFontsNamed(n)
                             /\ cache[n].font # resources.fonts[n]
    /\ (last.op \in {"Tj", "TJ"} /\ pc = "ops" /\ SelectedByTf /\ Collides(sel[1].name)) =>
          \E r \in GsFontsNamed(sel[1].name) :
              out = add_primitives(last.operands, last.out0,
                                   [font |-> r,
                                    cmap |-> parse_cmap(FontObjs[r].to_unicode[1],
                                                        overflow_checks).map])

\* fonts F2 -> Fa (Identity-H, 0x0041 -> "A"), graphics state G1 -> a font of own
\* name F2 (WinAnsi, 0x41 -> "a"); Tf F2, Tj 4241 gives "Ba", not "\n"
C25_Witness ==
    /\ pc = "ops" /\ last.op = "Tj" /\ last.operands = <<Str(<<66, 65>>)>>
    /\ sel = Some([by |-> "Tf", name |-> "F2"])
    /\ Collides("F2")
    /\ "G1" \in DOMAIN resources.graphics_states
    /\ resources.graphics_states["G1"] = Some(2)
    /\ last.out0 = <<>>
    /\ out = <<66, 97>>

-----------------------------------------------------------------------------
(* Properties of add_primitive on arrays *)

\* the text one primitive appends under a font, by itself: of a string its decoding,
\* of an array the texts of its elements one after the other, of anything else nothing
RECURSIVE ElemText(_, _)
ElemText(p, info) ==
    IF p.t = "str" THEN add_string(p.v, <<>>, info)
    ELSE IF p.t = "arr" THEN Cat([i \in 1..Len(p.v) |-> ElemText(p.v[i], info)])
    ELSE <<>>

\* C23: the text a text-showing operation appends is the concatenation, in operand
\* order, of the texts of its operands, the text of an array being the concatenation
\* in element order of the texts of its elements (strings and nested arrays), and
\* elements that are neither strings nor arrays appending nothing.
C23_ArrayRecursion ==
    (last.op \in ShowOps /\ last.font0 # None) =>
        /\ pc = "ops"
        /\ out = last.out0 \o Cat([i \in 1..Len(last.operands) |->
                                      ElemText(last.operands[i], last.font0[1])])

\* [(0041) -120 [(42)]] TJ under a WinAnsi font mapping 0x41 to "a": the bytes 00 and
\* 41 of the first string, nothing for the number, then the byte of the nested string
C23_Witness ==
    /\ ShownUnder("WinAnsi") /\ last.op = "TJ" /\ pc = "ops"
    /\ last.operands = <<Arr(<<Str(<<0, 65>>), Num(-120), Arr(<<Str(<<66>>)>>)>>)>>
    /\ last.font0[1].cmap = (65 :> <<97>>)
    /\ ShowedText = <<0, 97, 66>>

-----------------------------------------------------------------------------
(* Properties of App::update *)

\* the notes of a list held for a broker, in their order
Of(notes, broker) == SelectSeq(notes, LAMBDA note : note.broker = broker)

\* the file was read and parsed successfully
Good(file) ==
    file.read = "ok" /\ file.parser /\ file.account # None /\ file.balance # None

\* update has just returned from an Uploaded message, or has panicked in it
AfterUploaded == app.last.type \in {"UploadedDegiroFile", "UploadedIBFile"}

UploadedBroker == IF app.last.type = "UploadedDegiroFile" THEN degiro_broker ELSE ib_broker

OtherBroker == IF app.last.type = "UploadedDegiroFile" THEN ib_broker ELSE degiro_broker

\* C27: after an Uploaded message whose file was read and parsed successfully the
\* account notes and the balance notes held for its broker are exactly the newly
\* parsed ones, and the notes of the other broker are those held before, in the
\* same order; no other note is held. This holds after any sequence of uploads.
C27_UploadReplacesBrokerNotes ==
    (AfterUploaded /\ Good(app.last.file)) =>
        /\ ~app.crashed
        /\ Of(app.account_notes, UploadedBroker) = app.last.file.account[1]
        /\ Of(app.balance_notes, UploadedBroker) = app.last.file.balance[1]
        /\ Of(app.account_notes, OtherBroker) = Of(app.last.account0, OtherBroker)
        /\ Of(app.balance_notes, OtherBroker) = Of(app.last.balance0, OtherBroker)
        /\ Len(app.account_notes) = Len(Of(app.account_notes, UploadedBroker))
                                       + Len(Of(app.account_notes, OtherBroker))
        /\ Len(app.balance_notes) = Len(Of(app.balance_notes, UploadedBroker))
                                       + Len(Of(app.balance_notes, OtherBroker))

\* a Degiro statement, an Interactive Brokers statement, then a second Degiro
\* statement: the two Degiro account notes and the Degiro balance note are gone, the
\* Interactive Brokers note is kept, the new Degiro note follows it
C27_Witness ==
    /\ app.last.type = "UploadedDegiroFile" /\ Good(app.last.file)
    /\ app.last.account0 = <<Note(degiro_broker, 1), Note(degiro_broker, 2), Note(ib_broker, 3)>>
    /\ app.last.balance0 = <<Note(degiro_broker, 1)>>
    /\ app.account_notes = <<Note(ib_broker, 3), Note(degiro_broker, 3)>>
    /\ app.balance_notes = <<>>

\* C28 as stated: after an Uploaded message whose file could not be read or parsed
\* the notes of both brokers are as they were, the list of reader tasks is empty and
\* GenerateD6 and GenerateAeat720 have been sent.
C28_FailedUploadStillCompletes ==
    (AfterUploaded /\ ~Good(app.last.file)) =>
        /\ app.account_notes = app.last.account0
        /\ app.balance_notes = app.last.balance0
        /\ app.tasks = <<>>
        /\ app.queue = app.last.queue0 \o <<Msg("GenerateD6", NoFile, 0),
                                             Msg("GenerateAeat720", NoFile, 0)>>

\* C29 as stated: no read started by an Upload message is cancelled or lost, however
\* two uploads in flight interleave: every read is in progress or has delivered its
\* Uploaded message.
C29_NoReadCancelled ==
    \A t \in DOMAIN app.readers : app.readers[t].state \in {"loading", "done"}


====
